---- MODULE Spec2Model ----
(***************************************************************************)
(* A model of src/grade.py, the SWAIG grader: the check handlers, the      *)
(* path-existence walk and the grade() loop with its scoring.              *)
(*                                                                         *)
(* Text is a sequence of symbols.  Text that the program searches or       *)
(* splits (stdout, paths, expected substrings, function names) is spelt    *)
(* one character per symbol; a literal the program only copies (a message  *)
(* prefix, an id, a type tag) is one symbol.  An f-string is the           *)
(* concatenation of its pieces.  A mapping (dict) is a function whose      *)
(* DOMAIN is the set of keys present.  Percentages are kept in tenths of   *)
(* a percent (66.7 is 667), since round(..., 1) yields multiples of 0.1.   *)
(***************************************************************************)
EXTENDS Integers, Sequences, FiniteSets, TLC

VARIABLES
    config,     \* the rubric file as loaded by yaml.safe_load
    pc,         \* grade(): "loop" | "running" | "done"
    idx,        \* grade(): number of checks of the rubric already processed
    results,    \* grade(): the Report under construction
    calls,      \* history of the external invocations: <<"start", i, cmd>>, <<"end", i>>
    hcheck,     \* a single handler call: its check config
    hraw,       \* a single handler call: what the subprocess did
    hres,       \* a single handler call: the (passed, output) pair returned
    hpc,        \* a single handler call: "ready" | "returned"
    pdata,      \* check_path_exists: index of the parsed tree in DataSamples
    ppath,      \* check_path_exists: the path
    pres,       \* check_path_exists: the value returned
    ppc         \* check_path_exists: "ready" | "returned"

vars == <<config, pc, idx, results, calls, hcheck, hraw, hres, hpc, pdata, ppath, pres, ppc>>
gradeVars == <<config, pc, idx, results, calls>>
handlerVars == <<hcheck, hraw, hres, hpc>>
pathVars == <<pdata, ppath, pres, ppc>>

(***************************************************************************)
(* Bounds of the model and constants of the program.                       *)
(***************************************************************************)
MaxChecks == 2
MaxPathLen == 4
MaxExpect == 2
DefaultPassingScore == 70
TimeoutCode == 124
LaunchFailureCode == 1

(***************************************************************************)
(* Python built-ins the program relies on.                                 *)
(***************************************************************************)
\* dict.get(k, default)
Get(d, k, default) == IF k \in DOMAIN d THEN d[k] ELSE default

\* `sub in s` on str
Contains(sub, s) ==
    \E k \in 0..(Len(s) - Len(sub)) : SubSeq(s, k + 1, k + Len(sub)) = sub

UpperToLower ==
    ("A" :> "a") @@ ("B" :> "b") @@ ("K" :> "k") @@ ("L" :> "l") @@ ("O" :> "o") @@ ("P" :> "p") @@ ("U" :> "u")

\* str.lower()
Lower(s) ==
    [i \in 1..Len(s) |-> IF s[i] \in DOMAIN UpperToLower THEN UpperToLower[s[i]] ELSE s[i]]

\* str.replace(c, t) for a one-character c
RECURSIVE Replace(_, _, _)
Replace(s, c, t) ==
    IF s = <<>> THEN <<>>
    ELSE (IF Head(s) = c THEN t ELSE <<Head(s)>>) \o Replace(Tail(s), c, t)

\* str.split(sep) for a one-character sep: k separators give k + 1 pieces
RECURSIVE Split(_, _)
Split(s, sep) ==
    IF \A i \in 1..Len(s) : s[i] # sep THEN <<s>>
    ELSE LET k == CHOOSE i \in 1..Len(s) : s[i] = sep /\ \A j \in 1..(i - 1) : s[j] # sep
         IN  <<SubSeq(s, 1, k - 1)>> \o Split(SubSeq(s, k + 1, Len(s)), sep)

DigitVal ==
    ("0" :> 0) @@ ("1" :> 1) @@ ("2" :> 2) @@ ("3" :> 3) @@ ("4" :> 4) @@
    ("5" :> 5) @@ ("6" :> 6) @@ ("7" :> 7) @@ ("8" :> 8) @@ ("9" :> 9)

IsDigit(c) == c \in DOMAIN DigitVal

RECURSIVE Digits(_, _)
Digits(s, n) == IF s = <<>> THEN n ELSE Digits(Tail(s), 10 * n + DigitVal[Head(s)])

\* int(s): an optional sign and one or more digits, else ValueError (ok = FALSE).
\* (Blanks and underscores, which int() also accepts, are not in the alphabet.)
ParseInt(s) ==
    LET signed == s # <<>> /\ Head(s) \in {"+", "-"}
        body == IF signed THEN Tail(s) ELSE s
    IN  IF body # <<>> /\ \A i \in 1..Len(body) : IsDigit(body[i])
        THEN [ok |-> TRUE,
              val |-> IF signed /\ Head(s) = "-" THEN 0 - Digits(body, 0) ELSE Digits(body, 0)]
        ELSE [ok |-> FALSE, val |-> 0]

\* sum() over a sequence of integers
RECURSIVE Sum(_)
Sum(s) == IF s = <<>> THEN 0 ELSE Head(s) + Sum(Tail(s))

\* round(score / max_score * 100, 1), in tenths: the nearest tenth, a tie to
\* the even one.  Python divides and multiplies in binary floating point;
\* for every 0 <= score <= max_score < 80 it yields this same value (from
\* 23 / 80 on, a quotient an ulp below a tie can round the other way).
Round1(score, max_score) ==
    LET q == (1000 * score) \div max_score
        r == (1000 * score) % max_score
    IN  IF 2 * r < max_score THEN q
        ELSE IF 2 * r > max_score THEN q + 1
        ELSE IF q % 2 = 0 THEN q ELSE q + 1

(***************************************************************************)
(* json.loads on the JSON of objects, arrays, strings and non-negative     *)
(* integers, without blanks.  A parsed value is tagged with its Python     *)
(* type: dict, list, str, int.                                             *)
(***************************************************************************)
JDict(f) == [t |-> "dict", v |-> f]
JList(s) == [t |-> "list", v |-> s]
JStr(s) == [t |-> "str", v |-> s]
JInt(n) == [t |-> "int", v |-> n]
ParseFail == [ok |-> FALSE]
Parsed(v, rest) == [ok |-> TRUE, val |-> v, rest |-> rest]

RECURSIVE ScanString(_, _)
ScanString(s, acc) ==
    IF s = <<>> THEN ParseFail
    ELSE IF Head(s) = "\"" THEN Parsed(acc, Tail(s))
    ELSE ScanString(Tail(s), Append(acc, Head(s)))

RECURSIVE ScanNumber(_, _)
ScanNumber(s, n) ==
    IF s # <<>> /\ IsDigit(Head(s)) THEN ScanNumber(Tail(s), 10 * n + DigitVal[Head(s)])
    ELSE Parsed(JInt(n), s)

RECURSIVE ParseValue(_), ParseMembers(_, _), ParseElements(_, _)
ParseValue(s) ==
    IF s = <<>> THEN ParseFail
    ELSE IF Head(s) = "{" THEN
        IF Len(s) >= 2 /\ s[2] = "}" THEN Parsed(JDict(<<>>), SubSeq(s, 3, Len(s)))
        ELSE ParseMembers(Tail(s), <<>>)
    ELSE IF Head(s) = "[" THEN
        IF Len(s) >= 2 /\ s[2] = "]" THEN Parsed(JList(<<>>), SubSeq(s, 3, Len(s)))
        ELSE ParseElements(Tail(s), <<>>)
    ELSE IF Head(s) = "\"" THEN
        LET r == ScanString(Tail(s), <<>>)
        IN  IF r.ok THEN Parsed(JStr(r.val), r.rest) ELSE ParseFail
    ELSE IF Head(s) = "0" THEN Parsed(JInt(0), Tail(s))
    ELSE IF IsDigit(Head(s)) THEN ScanNumber(s, 0)
    ELSE ParseFail

\* after "{" or ",": "key":value, then "," or "}"; a repeated key keeps the last value
ParseMembers(s, acc) ==
    IF s = <<>> \/ Head(s) # "\"" THEN ParseFail
    ELSE LET k == ScanString(Tail(s), <<>>)
         IN  IF ~k.ok \/ k.rest = <<>> \/ Head(k.rest) # ":" THEN ParseFail
             ELSE LET v == ParseValue(Tail(k.rest))
                  IN  IF ~v.ok \/ v.rest = <<>> THEN ParseFail
                      ELSE LET d == (k.val :> v.val) @@ acc
                           IN  IF Head(v.rest) = "}" THEN Parsed(JDict(d), Tail(v.rest))
                               ELSE IF Head(v.rest) = "," THEN ParseMembers(Tail(v.rest), d)
                               ELSE ParseFail

\* after "[" or ",": value, then "," or "]"
ParseElements(s, acc) ==
    LET v == ParseValue(s)
    IN  IF ~v.ok \/ v.rest = <<>> THEN ParseFail
        ELSE IF Head(v.rest) = "]" THEN Parsed(JList(Append(acc, v.val)), Tail(v.rest))
        ELSE IF Head(v.rest) = "," THEN ParseElements(Tail(v.rest), Append(acc, v.val))
        ELSE ParseFail

\* json.loads(stdout): the whole text must be one value, else JSONDecodeError
json_loads(s) ==
    LET r == ParseValue(s)
    IN  IF r.ok /\ r.rest = <<>> THEN [ok |-> TRUE, val |-> r.val] ELSE [ok |-> FALSE]

(***************************************************************************)
(* run_swaig_test and the five check handlers.  `raw` is what              *)
(* subprocess.run did: [kind |-> "exit", code, stdout, stderr], a          *)
(* TimeoutExpired [kind |-> "timeout"], or any other exception             *)
(* [kind |-> "error", msg |-> str(e)].  A handler is given the check's     *)
(* config and the raw outcome of the one invocation it makes.              *)
(***************************************************************************)
AgentFile == <<"agent.py">>

\* None, as config.get("agent_class") gives it: only ever tested for truth
None == <<>>

\* the command line run_swaig_test builds
Cmd(args, agent_class) ==
    <<"swaig-test">> \o AgentFile
        \o (IF agent_class # None THEN <<"--agent-class">> \o agent_class ELSE <<>>)
        \o args

\* mutant: a timeout reported as a clean exit
run_swaig_test_swallow(raw) ==
    IF raw.kind = "exit" THEN [code |-> raw.code, stdout |-> raw.stdout, stderr |-> raw.stderr]
    ELSE IF raw.kind = "timeout" THEN [code |-> 0, stdout |-> <<>>, stderr |-> <<"Timeout exceeded">>]
    ELSE [code |-> LaunchFailureCode, stdout |-> <<>>, stderr |-> raw.msg]

run_swaig_test(raw) ==
    IF raw.kind = "exit" THEN [code |-> raw.code, stdout |-> raw.stdout, stderr |-> raw.stderr]
    ELSE IF raw.kind = "timeout" THEN [code |-> TimeoutCode, stdout |-> <<>>, stderr |-> <<"Timeout exceeded">>]
    ELSE [code |-> LaunchFailureCode, stdout |-> <<>>, stderr |-> raw.msg]

check_instantiate(cfg, raw) ==
    LET r == run_swaig_test(raw)
    IN  <<r.code = 0, IF r.code # 0 THEN r.stderr ELSE <<>> >>

RECURSIVE Walk(_, _)
Walk(current, parts) ==
    IF parts = <<>> THEN TRUE
    ELSE LET part == Head(parts)
         IN  IF part = <<>> THEN Walk(current, Tail(parts))
             ELSE IF current.t = "dict" /\ part \in DOMAIN current.v
                  THEN Walk(current.v[part], Tail(parts))
             ELSE IF current.t = "list"
                  THEN LET n == ParseInt(part)
                           len == Len(current.v)
                       IN  IF ~n.ok THEN FALSE                           \* ValueError
                           ELSE IF n.val >= 0 /\ n.val < len
                                THEN Walk(current.v[n.val + 1], Tail(parts))
                           ELSE IF n.val < 0 /\ n.val >= 0 - len         \* a negative index counts from the end
                                THEN Walk(current.v[len + n.val + 1], Tail(parts))
                           ELSE FALSE                                    \* IndexError
             ELSE FALSE

PathParts(path) == Split(Replace(Replace(path, "[", <<".">>), "]", <<>>), ".")

check_path_exists(data, path) == Walk(data, PathParts(path))

check_swml_valid(cfg, raw) ==
    LET r == run_swaig_test(raw)
    IN  IF r.code # 0 THEN <<FALSE, r.stderr>>
        ELSE LET swml == json_loads(r.stdout)
                 reqs == Get(cfg, "require", <<>>)
                 missing == {i \in 1..Len(reqs) :
                                 ~check_path_exists(swml.val, Get(reqs[i], "path", <<>>))}
             IN  IF ~swml.ok THEN <<FALSE, <<"Invalid JSON: ", "JSONDecodeError">> >>
                 ELSE IF missing = {} THEN <<TRUE, <<>> >>
                 ELSE LET i == CHOOSE m \in missing : \A o \in missing : m <= o
                      IN  <<FALSE, <<"Missing: ">> \o Get(reqs[i], "path", <<>>)>>

check_function_exists(cfg, raw) ==
    LET r == run_swaig_test(raw)
        func_name == Get(cfg, "function", <<>>)
    IN  IF r.code # 0 THEN <<FALSE, r.stderr>>
        ELSE IF Contains(func_name, r.stdout) THEN <<TRUE, <<>> >>
        ELSE <<FALSE, <<"Function '">> \o func_name \o <<"' not found">> >>

\* mutant: the expected strings compared case-sensitively
check_exec_exact(cfg, raw) ==
    LET r == run_swaig_test(raw)
        expect == Get(cfg, "expect", <<>>)
        wanted == Get(expect, "stdout_contains", <<>>)
        missing == {i \in 1..Len(wanted) : ~Contains(wanted[i], r.stdout)}
    IN  IF r.code # 0 THEN <<FALSE, r.stderr>>
        ELSE IF missing = {} THEN <<TRUE, <<>> >>
        ELSE LET i == CHOOSE m \in missing : \A o \in missing : m <= o
             IN  <<FALSE, <<"Output missing: ">> \o wanted[i]>>

check_exec(cfg, raw) ==
    LET r == run_swaig_test(raw)
        expect == Get(cfg, "expect", <<>>)
        wanted == Get(expect, "stdout_contains", <<>>)
        stdout_lower == Lower(r.stdout)
        missing == {i \in 1..Len(wanted) : ~Contains(Lower(wanted[i]), stdout_lower)}
    IN  IF r.code # 0 THEN <<FALSE, r.stderr>>
        ELSE IF missing = {} THEN <<TRUE, <<>> >>
        ELSE LET i == CHOOSE m \in missing : \A o \in missing : m <= o
             IN  <<FALSE, <<"Output missing: ">> \o wanted[i]>>

check_swml_contains(cfg, raw) ==
    LET r == run_swaig_test(raw)
        reqs == Get(cfg, "require", <<>>)
        missing == {i \in 1..Len(reqs) :
                        LET text == Get(reqs[i], "text", <<>>)
                        IN  text # <<>> /\ ~Contains(text, r.stdout)}
    IN  IF r.code # 0 THEN <<FALSE, r.stderr>>
        ELSE IF missing = {} THEN <<TRUE, <<>> >>
        ELSE LET i == CHOOSE m \in missing : \A o \in missing : m <= o
             IN  <<FALSE, <<"SWML missing: ">> \o Get(reqs[i], "text", <<>>)>>

CHECK_HANDLERS ==
    (<<"instantiate">> :> "check_instantiate") @@
    (<<"swml_valid">> :> "check_swml_valid") @@
    (<<"function_exists">> :> "check_function_exists") @@
    (<<"exec">> :> "check_exec") @@
    (<<"swml_contains">> :> "check_swml_contains")

\* the handler's call: handler(agent_file, check)
Handle(handler, cfg, raw) ==
    CASE handler = "check_instantiate" -> check_instantiate(cfg, raw)
      [] handler = "check_swml_valid" -> check_swml_valid(cfg, raw)
      [] handler = "check_function_exists" -> check_function_exists(cfg, raw)
      [] handler = "check_exec" -> check_exec(cfg, raw)
      [] handler = "check_swml_contains" -> check_swml_contains(cfg, raw)

RECURSIVE ExecFlags(_)
\* check_exec: each args entry as a "--key", str(value) pair, in the mapping's order
ExecFlags(args) ==
    IF args = <<>> THEN <<>>
    ELSE <<"--">> \o Head(args)[1] \o Head(args)[2] \o ExecFlags(Tail(args))

\* the arguments each handler passes to run_swaig_test
HandlerArgs(handler, cfg) ==
    CASE handler \in {"check_instantiate", "check_function_exists"} -> <<"--list-tools">>
      [] handler \in {"check_swml_valid", "check_swml_contains"} -> <<"--dump-swml", "--raw">>
      [] handler = "check_exec" ->
            <<"--exec">> \o Get(cfg, "function", <<>>) \o ExecFlags(Get(cfg, "args", <<>>))

HandlerCmd(handler, cfg) == Cmd(HandlerArgs(handler, cfg), Get(cfg, "agent_class", None))

(***************************************************************************)
(* The rubrics, configurations and subprocess outcomes the model draws     *)
(* from.                                                                   *)
(***************************************************************************)
Lookup == <<"l", "o", "o", "k", "u", "p">>

\* stdout texts: nothing; a tool listing; two JSON documents; a truncated one
OutEmpty == <<>>
OutTools == <<"l", "o", "o", "k", "u", "p", " ", "O", "K">>
OutJson == <<"{", "\"", "a", "\"", ":", "{", "\"", "b", "\"", ":", "[", "1", ",", "2", "]", "}", "}">>
OutFlatJson == <<"{", "\"", "a", "\"", ":", "1", "}">>
OutBadJson == <<"{", "\"", "a", "\"", ":">>
Stdouts == {OutEmpty, OutTools, OutJson, OutFlatJson, OutBadJson}
Stderrs == {<<>>, <<"Traceback">>}

RawOutcomes ==
    {[kind |-> "timeout"]}
    \cup {[kind |-> "error", msg |-> m] : m \in {<<>>, <<"[Errno 2] No such file">>}}
    \cup {[kind |-> "exit", code |-> c, stdout |-> o, stderr |-> e] :
              c \in {0, 1}, o \in Stdouts, e \in Stderrs}

K_instantiate ==
    [id |-> <<"c1">>, name |-> <<"Loads">>, type |-> <<"instantiate">>, points |-> 20]
K_function_exists ==
    [id |-> <<"c2">>, name |-> <<"Has lookup">>, type |-> <<"function_exists">>,
     function |-> Lookup, points |-> 10]
K_swml_valid ==
    [id |-> <<"c3">>, name |-> <<"SWML">>, type |-> <<"swml_valid">>, agent_class |-> <<"Agent">>,
     require |-> <<[path |-> <<"a", ".", "b", "[", "1", "]">>], [path |-> <<"a">>]>>, points |-> 10]
K_exec ==
    [id |-> <<"c4">>, name |-> <<"Runs">>, type |-> <<"exec">>, function |-> Lookup,
     args |-> << <<"q", "x">> >>, expect |-> [stdout_contains |-> << <<"O", "k">> >>], points |-> 20]
K_swml_contains ==
    [id |-> <<"c5">>, name |-> <<"Mentions">>, type |-> <<"swml_contains">>,
     require |-> <<[text |-> <<"b">>], [text |-> <<>>]>>, points |-> 5]
K_unknown ==
    [id |-> <<"c6">>, name |-> <<"Odd">>, type |-> <<"frobnicate">>, points |-> 10]
\* no type, no name, no points: every field defaulted; its id repeats another's
K_untyped == [id |-> <<"c1">>]

CheckSpecs ==
    {K_instantiate, K_function_exists, K_swml_valid, K_exec, K_swml_contains, K_unknown, K_untyped}

Rubrics == UNION {[1..n -> CheckSpecs] : n \in 0..MaxChecks}

\* the rubric files: every rubric with assignment and feedback absent, with
\* both present, and with a partial feedback; and a file with no checks key
Configs ==
    {[checks |-> r] : r \in Rubrics}
    \cup {[assignment |-> [title |-> <<"Lab 1">>, passing_score |-> 50], checks |-> r,
           feedback |-> [pass |-> <<"Well done">>, fail |-> <<"Try again">>]] : r \in Rubrics}
    \cup {[assignment |-> [passing_score |-> 100], checks |-> r,
           feedback |-> [pass |-> <<"Well done">>]] : r \in Rubrics}
    \cup {[assignment |-> [title |-> <<"Lab 1">>]]}

(***************************************************************************)
(* grade().  The loop is cut where it blocks: at the subprocess call.      *)
(***************************************************************************)
assignment == Get(config, "assignment", <<>>)
checks == Get(config, "checks", <<>>)
feedback == Get(config, "feedback", <<>>)

\* mutant: a check of unknown type handed to a default handler
HandlerOf_fallback(check) == Get(CHECK_HANDLERS, Get(check, "type", <<>>), "check_instantiate")

\* the handler of a check: CHECK_HANDLERS.get(check.get("type", "")), "" standing for None
HandlerOf(check) == Get(CHECK_HANDLERS, Get(check, "type", <<>>), "")

\* mutant: an unknown check worth nothing
UnknownResult_zero(check) ==
    [id |-> Get(check, "id", <<>>),
     name |-> Get(check, "name", <<>>),
     max_points |-> 0,
     points |-> 0,
     passed |-> FALSE,
     output |-> <<"Unknown check type: ">> \o Get(check, "type", <<>>)]

\* the CheckResult of a check without handler
UnknownResult(check) ==
    [id |-> Get(check, "id", <<>>),
     name |-> Get(check, "name", <<>>),
     max_points |-> Get(check, "points", 0),
     points |-> 0,
     passed |-> FALSE,
     output |-> <<"Unknown check type: ">> \o Get(check, "type", <<>>)]

\* mutant: the points granted whether the check passed or not
HandledResult_granted(check, passed, output) ==
    [id |-> Get(check, "id", <<>>),
     name |-> Get(check, "name", <<>>),
     max_points |-> Get(check, "points", 0),
     points |-> Get(check, "points", 0),
     passed |-> passed,
     output |-> output]

\* the CheckResult of a check whose handler returned (passed, output)
HandledResult(check, passed, output) ==
    [id |-> Get(check, "id", <<>>),
     name |-> Get(check, "name", <<>>),
     max_points |-> Get(check, "points", 0),
     points |-> IF passed THEN Get(check, "points", 0) ELSE 0,
     passed |-> passed,
     output |-> output]

\* mutant: a feedback line for every failure, with or without diagnostic
Record_everyfailure(res, result) ==
    [res EXCEPT !.checks = Append(@, result),
                !.feedback = IF ~result.passed
                             THEN Append(@, <<"**">> \o result.name \o <<"**: ">> \o result.output)
                             ELSE @]

\* results["checks"].append(result), and the feedback line of a failure that has a diagnostic
Record(res, result) ==
    [res EXCEPT !.checks = Append(@, result),
                !.feedback = IF ~result.passed /\ result.output # <<>>
                             THEN Append(@, <<"**">> \o result.name \o <<"**: ">> \o result.output)
                             ELSE @]

\* mutant: the percentage cut to a tenth, not rounded
Percentage_truncated(score, max_score) ==
    IF max_score > 0 THEN (1000 * score) \div max_score ELSE 0

\* results["percentage"]
Percentage(score, max_score) == IF max_score > 0 THEN Round1(score, max_score) ELSE 0

\* mutant: the threshold itself does not pass
Passing_strict(percentage, passing_score) == percentage > 10 * passing_score

\* results["passed"]; percentage is in tenths, passing_score in percent
Passing(percentage, passing_score) == percentage >= 10 * passing_score

\* the summary line put first
Summary(passed) ==
    IF passed THEN Get(feedback, "pass", <<"Passed!">>) ELSE Get(feedback, "fail", <<"Not yet passing.">>)

\* the totals, the verdict and the summary line
Totals(res) ==
    LET max_score == Sum([i \in 1..Len(res.checks) |-> res.checks[i].max_points])
        score == Sum([i \in 1..Len(res.checks) |-> res.checks[i].points])
        percentage == Percentage(score, max_score)
        passed == Passing(percentage, Get(assignment, "passing_score", DefaultPassingScore))
    IN  [res EXCEPT !.max_score = max_score,
                    !.score = score,
                    !.percentage = percentage,
                    !.passed = passed,
                    !.feedback = <<Summary(passed)>> \o @]

\* mutant: a failing check ends the run
AfterCheck_abort(result) == IF result.passed THEN "loop" ELSE "aborted"

\* the for loop goes on to the next check whatever the result was
AfterCheck(result) == "loop"

InitResults ==
    [assignment |-> assignment, checks |-> <<>>, score |-> 0, max_score |-> 0,
     percentage |-> 0, passed |-> FALSE, feedback |-> <<>>]

HandlerIdle == hcheck = <<>> /\ hraw = <<>> /\ hres = <<>> /\ hpc = "idle"
PathIdle == pdata = 0 /\ ppath = <<>> /\ pres = FALSE /\ ppc = "idle"
GradeIdle == config = [checks |-> <<>>] /\ pc = "idle" /\ idx = 0 /\ results = <<>> /\ calls = <<>>

Init ==
    /\ config \in Configs
    /\ pc = "loop"
    /\ idx = 0
    /\ results = InitResults
    /\ calls = <<>>
    /\ HandlerIdle
    /\ PathIdle

\* the next check has a handler: the handler starts the external command
Invoke ==
    /\ pc = "loop"
    /\ idx < Len(checks)
    /\ HandlerOf(checks[idx + 1]) # ""
    /\ pc' = "running"
    /\ calls' = Append(calls, <<"start", idx + 1, HandlerCmd(HandlerOf(checks[idx + 1]), checks[idx + 1])>>)
    /\ UNCHANGED <<config, idx, results, handlerVars, pathVars>>

\* the external command ends, or times out, or never started: the handler
\* returns and the result is recorded
Complete ==
    /\ pc = "running"
    /\ \E raw \in RawOutcomes :
          LET check == checks[idx + 1]
              r == Handle(HandlerOf(check), check, raw)
              result == HandledResult(check, r[1], r[2])
          IN  /\ results' = Record(results, result)
              /\ pc' = AfterCheck(result)
    /\ calls' = Append(calls, <<"end", idx + 1>>)
    /\ idx' = idx + 1
    /\ UNCHANGED <<config, handlerVars, pathVars>>

\* the next check has no handler
Unknown ==
    /\ pc = "loop"
    /\ idx < Len(checks)
    /\ HandlerOf(checks[idx + 1]) = ""
    /\ results' = Record(results, UnknownResult(checks[idx + 1]))
    /\ pc' = AfterCheck(UnknownResult(checks[idx + 1]))
    /\ idx' = idx + 1
    /\ UNCHANGED <<config, calls, handlerVars, pathVars>>

\* after the last check: totals, verdict, summary line, return
Finish ==
    /\ pc = "loop"
    /\ idx = Len(checks)
    /\ results' = Totals(results)
    /\ pc' = "done"
    /\ UNCHANGED <<config, idx, calls, handlerVars, pathVars>>

Next == Invoke \/ Complete \/ Unknown \/ Finish

Spec == Init /\ [][Next]_vars

\* grade() is one sequential loop and every subprocess call is bounded by
\* its timeout: a step that can be taken is taken
FairSpec == Init /\ [][Next]_vars /\ WF_vars(Next)

(***************************************************************************)
(* One handler call on its own: a check of a recognised type, a raw        *)
(* outcome of its invocation, and the pair the handler returns.            *)
(***************************************************************************)
ExpectStrings == {<<>>, <<"O", "k">>, <<"u", "p">>, <<"z">>}
ExpectLists == UNION {[1..n -> ExpectStrings] : n \in 0..MaxExpect}

HandlerChecks ==
    {K_instantiate, K_function_exists, K_swml_valid, K_swml_contains, K_exec}
    \cup {[type |-> <<"function_exists">>], [type |-> <<"swml_valid">>], [type |-> <<"swml_contains">>],
          [type |-> <<"exec">>], [type |-> <<"exec">>, expect |-> [note |-> <<"none">>]]}
    \cup {[type |-> <<"exec">>, function |-> Lookup, expect |-> [stdout_contains |-> w]] : w \in ExpectLists}

HandlerRawOutcomes ==
    {[kind |-> "timeout"]}
    \cup {[kind |-> "error", msg |-> m] : m \in {<<>>, <<"[Errno 2] No such file">>}}
    \cup {[kind |-> "exit", code |-> c, stdout |-> o, stderr |-> e] :
              c \in {0, 1, 2, TimeoutCode}, o \in Stdouts, e \in Stderrs}

InitCheck ==
    /\ hcheck \in HandlerChecks
    /\ hraw = <<>>
    /\ hres = <<>>
    /\ hpc = "ready"
    /\ GradeIdle
    /\ PathIdle

\* the handler has returned `res` after the invocation ended as `raw`
Returned(raw, res) ==
    /\ hraw' = raw
    /\ hres' = res
    /\ hpc' = "returned"
    /\ UNCHANGED <<hcheck, gradeVars, pathVars>>

CallInstantiate ==
    /\ hpc = "ready"
    /\ HandlerOf(hcheck) = "check_instantiate"
    /\ \E raw \in HandlerRawOutcomes : Returned(raw, check_instantiate(hcheck, raw))

CallSwmlValid ==
    /\ hpc = "ready"
    /\ HandlerOf(hcheck) = "check_swml_valid"
    /\ \E raw \in HandlerRawOutcomes : Returned(raw, check_swml_valid(hcheck, raw))

CallFunctionExists ==
    /\ hpc = "ready"
    /\ HandlerOf(hcheck) = "check_function_exists"
    /\ \E raw \in HandlerRawOutcomes : Returned(raw, check_function_exists(hcheck, raw))

CallExec ==
    /\ hpc = "ready"
    /\ HandlerOf(hcheck) = "check_exec"
    /\ \E raw \in HandlerRawOutcomes : Returned(raw, check_exec(hcheck, raw))

CallSwmlContains ==
    /\ hpc = "ready"
    /\ HandlerOf(hcheck) = "check_swml_contains"
    /\ \E raw \in HandlerRawOutcomes : Returned(raw, check_swml_contains(hcheck, raw))

NextCheck == CallInstantiate \/ CallSwmlValid \/ CallFunctionExists \/ CallExec \/ CallSwmlContains

SpecCheck == InitCheck /\ [][NextCheck]_vars

(***************************************************************************)
(* check_path_exists on its own: a parsed tree and a path.                 *)
(***************************************************************************)
PathAlphabet == {"a", "b", ".", "[", "]", "0", "1", "5", "-"}
PathExample == <<"a", ".", "b", "[", "1", "]">>
Paths == UNION {[1..n -> PathAlphabet] : n \in 0..MaxPathLen} \cup {PathExample}

\* {"a":{"b":[10,20]}}, {"a":1}, [1,2], {"a":[{"b":1}],"ab":2,"1":3}, [], "a"
DataSamples ==
    <<JDict(<<"a">> :> JDict(<<"b">> :> JList(<<JInt(10), JInt(20)>>))),
      JDict(<<"a">> :> JInt(1)),
      JList(<<JInt(1), JInt(2)>>),
      JDict((<<"a">> :> JList(<<JDict(<<"b">> :> JInt(1))>>)) @@ (<<"a", "b">> :> JInt(2)) @@ (<<"1">> :> JInt(3))),
      JList(<<>>),
      JStr(<<"a">>)>>

InitPath ==
    /\ pdata \in 1..Len(DataSamples)
    /\ ppath \in Paths
    /\ pres = FALSE
    /\ ppc = "ready"
    /\ GradeIdle
    /\ HandlerIdle

Resolve ==
    /\ ppc = "ready"
    /\ pres' = check_path_exists(DataSamples[pdata], ppath)
    /\ ppc' = "returned"
    /\ UNCHANGED <<pdata, ppath, gradeVars, handlerVars>>

NextPath == Resolve

SpecPath == InitPath /\ [][NextPath]_vars

(***************************************************************************)
(* The properties.                                                         *)
(***************************************************************************)
Recognised == {<<"instantiate">>, <<"swml_valid">>, <<"function_exists">>, <<"exec">>, <<"swml_contains">>}
TypeOf(check) == IF "type" \in DOMAIN check THEN check.type ELSE <<>>
PointsOf(check) == IF "points" \in DOMAIN check THEN check.points ELSE 0
Abs(x) == IF x < 0 THEN 0 - x ELSE x

RECURSIVE SetSum(_, _)
SetSum(f, S) ==
    IF S = {} THEN 0
    ELSE LET x == CHOOSE y \in S : TRUE IN f[x] + SetSum(f, S \ {x})

Orderings(n) == {p \in [1..n -> 1..n] : \A i, j \in 1..n : p[i] = p[j] => i = j}

\* the Report has one CheckResult per check of the rubric, in rubric order
ReportFollowsRubric ==
    /\ Len(results.checks) = Len(checks)
    /\ \A i \in 1..Len(checks) :
          /\ results.checks[i].id = (IF "id" \in DOMAIN checks[i] THEN checks[i].id ELSE <<>>)
          /\ results.checks[i].name = (IF "name" \in DOMAIN checks[i] THEN checks[i].name ELSE <<>>)

C2_ScoresAreSums ==
    pc = "done" =>
        LET n == Len(checks)
            pts == [i \in 1..n |-> PointsOf(checks[i])]
        IN  /\ Len(results.checks) = n
            /\ results.max_score = SetSum(pts, 1..n)
            /\ results.score = SetSum(pts, {i \in 1..n : results.checks[i].passed})
            /\ \A i \in 1..n :
                  /\ results.checks[i].max_points = pts[i]
                  /\ results.checks[i].points = (IF results.checks[i].passed THEN pts[i] ELSE 0)
            /\ \A p \in Orderings(n) :
                  /\ Sum([i \in 1..n |-> results.checks[p[i]].max_points]) = results.max_score
                  /\ Sum([i \in 1..n |-> results.checks[p[i]].points]) = results.score

\* a Report with a passed and a failed check, both worth points
C2_Witness ==
    /\ pc = "done"
    /\ Len(results.checks) = 2
    /\ results.checks[1].passed /\ results.checks[1].points > 0
    /\ ~results.checks[2].passed /\ results.checks[2].max_points > 0
    /\ results.score < results.max_score

\* percentage (in tenths) is 100 * score / max_score rounded to one decimal
NearestTenth(percentage, score, max_score) ==
    2 * Abs(percentage * max_score - 1000 * score) <= max_score

\* C3 as stated: percentage is 0 if and only if max_score is 0, and with
\* max_score > 0 it is 100 * score / max_score rounded to one decimal.
C3_ZeroIffNoMaxScore ==
    pc = "done" =>
        /\ (results.percentage = 0) <=> (results.max_score = 0)
        /\ results.max_score > 0 =>
              NearestTenth(results.percentage, results.score, results.max_score)

\* C3, amended: percentage is 0 whenever max_score is 0 (and not only then),
\* and with max_score > 0 it is 100 * score / max_score rounded to one decimal.
C3_PercentageRounded ==
    pc = "done" =>
        /\ results.max_score = 0 => results.percentage = 0
        /\ results.max_score > 0 =>
              NearestTenth(results.percentage, results.score, results.max_score)

\* a Report whose percentage needed rounding
C3_Witness ==
    /\ pc = "done"
    /\ results.max_score > 0
    /\ (1000 * results.score) % results.max_score # 0

\* the rubric of 20 + 10 points, only the 20-point check passed, no threshold configured
TwentyTenScenario ==
    /\ Len(checks) = 2
    /\ PointsOf(checks[1]) = 20 /\ PointsOf(checks[2]) = 10
    /\ results.checks[1].passed /\ ~results.checks[2].passed
    /\ "passing_score" \notin DOMAIN assignment

\* C4: passed is true if and only if percentage >= assignment.passing_score,
\* 70 when absent; 20 of 30 points is 66.7 and does not pass the default.
C4_PassedIffThreshold ==
    pc = "done" =>
        LET threshold == IF "passing_score" \in DOMAIN assignment THEN assignment.passing_score ELSE 70
        IN  /\ results.passed <=> (results.percentage >= 10 * threshold)
            /\ TwentyTenScenario => (results.percentage = 667 /\ ~results.passed)

C4_Witness == pc = "done" /\ TwentyTenScenario /\ results.percentage = 667 /\ ~results.passed

\* C5: feedback is the summary line (feedback.pass or "Passed!" when the
\* Report passed, else feedback.fail or "Not yet passing.") followed by one
\* line "**<name>**: <diagnostic>" per failed check with a non-empty
\* diagnostic, in rubric order, and nothing else.
C5_FeedbackShape ==
    pc = "done" =>
        LET summary == IF results.passed
                       THEN (IF "pass" \in DOMAIN feedback THEN feedback.pass ELSE <<"Passed!">>)
                       ELSE (IF "fail" \in DOMAIN feedback THEN feedback.fail ELSE <<"Not yet passing.">>)
            failed == SelectSeq(results.checks, LAMBDA c : ~c.passed /\ c.output # <<>>)
            lines == [i \in 1..Len(failed) |-> <<"**">> \o failed[i].name \o <<"**: ">> \o failed[i].output]
        IN  /\ results.feedback = <<summary>> \o lines
            /\ Len(results.feedback) =
                   1 + Cardinality({i \in 1..Len(results.checks) :
                                       ~results.checks[i].passed /\ results.checks[i].output # <<>>})

\* a Report with a failure without diagnostic and a failure with one
C5_Witness ==
    /\ pc = "done"
    /\ Len(results.checks) = 2
    /\ ~results.checks[1].passed /\ results.checks[1].output = <<>>
    /\ ~results.checks[2].passed /\ results.checks[2].output # <<>>
    /\ Len(results.feedback) = 2

\* C6: for each of the five handlers, a timeout gives (false, "Timeout
\* exceeded"), a launch failure (false, the exception message), a non-zero
\* exit (false, stderr); no check passes unless the invocation exited with 0.
C6_InvocationOutcome ==
    hpc = "returned" =>
        /\ TypeOf(hcheck) \in Recognised
        /\ hraw.kind = "timeout" => hres = <<FALSE, <<"Timeout exceeded">> >>
        /\ hraw.kind = "error" => hres = <<FALSE, hraw.msg>>
        /\ (hraw.kind = "exit" /\ hraw.code # 0) => hres = <<FALSE, hraw.stderr>>
        /\ hres[1] => (hraw.kind = "exit" /\ hraw.code = 0)

\* a swml_valid check whose invocation timed out
C6_Witness ==
    /\ hpc = "returned"
    /\ TypeOf(hcheck) = <<"swml_valid">>
    /\ hraw.kind = "timeout"
    /\ hres = <<FALSE, <<"Timeout exceeded">> >>

\* the path cut at ".", "[" and "]", each a separator, empty segments dropped
DescribedSegments(path) ==
    SelectSeq(Split(Replace(Replace(path, "[", <<".">>), "]", <<".">>), "."), LAMBDA x : x # <<>>)

\* the walk as described: a key of the mapping, or an index 0 <= index < length of the sequence
RECURSIVE DescribedWalk(_, _)
DescribedWalk(node, segs) ==
    IF segs = <<>> THEN TRUE
    ELSE LET seg == Head(segs)
         IN  IF node.t = "dict"
             THEN seg \in DOMAIN node.v /\ DescribedWalk(node.v[seg], Tail(segs))
             ELSE IF node.t = "list"
             THEN /\ ParseInt(seg).ok
                  /\ ParseInt(seg).val >= 0
                  /\ ParseInt(seg).val < Len(node.v)
                  /\ DescribedWalk(node.v[ParseInt(seg).val + 1], Tail(segs))
             ELSE FALSE

\* C7: check_path_exists splits the path on ".", "[" and "]" (each a
\* separator, empty segments dropped) and walks the tree, a segment resolving
\* as a key of a mapping or as an index 0 <= index < length of a sequence; it
\* returns true exactly when every segment resolves.
C7_ResolvesAsDescribed ==
    ppc = "returned" => pres = DescribedWalk(DataSamples[pdata], DescribedSegments(ppath))

\* C8: a check whose type is not one of the five (absent and empty included)
\* yields passed = false, points = 0, max_points = its points and the output
\* "Unknown check type: <type>"; it is recorded like any failure, with its
\* feedback line and its points in max_score, and the rubric goes on.
C8_UnknownTypeFails ==
    pc \in {"loop", "running", "done"} =>
        LET unknown == {i \in 1..Len(results.checks) : TypeOf(checks[i]) \notin Recognised}
            pts == [i \in 1..Len(checks) |-> PointsOf(checks[i])]
        IN  /\ \A i \in unknown :
                  /\ results.checks[i].passed = FALSE
                  /\ results.checks[i].points = 0
                  /\ results.checks[i].max_points = pts[i]
                  /\ results.checks[i].output = <<"Unknown check type: ">> \o TypeOf(checks[i])
                  /\ \E k \in 1..Len(results.feedback) :
                        results.feedback[k] =
                            <<"**">> \o results.checks[i].name \o <<"**: ", "Unknown check type: ">> \o TypeOf(checks[i])
            /\ pc = "done" =>
                  /\ Len(results.checks) = Len(checks)
                  /\ results.max_score >= SetSum(pts, unknown)

\* a Report whose first check had an unknown type and points, and whose second check passed
C8_Witness ==
    /\ pc = "done"
    /\ Len(results.checks) = 2
    /\ TypeOf(checks[1]) = <<"frobnicate">>
    /\ results.checks[1].max_points = 10
    /\ results.checks[2].passed

CasePairs ==
    {<<"A", "a">>, <<"B", "b">>, <<"K", "k">>, <<"L", "l">>, <<"O", "o">>, <<"P", "p">>, <<"U", "u">>}
SameLetter(a, b) == a = b \/ <<a, b>> \in CasePairs \/ <<b, a>> \in CasePairs

\* sub occurs in s, letters compared without regard to case
OccursIgnoringCase(sub, s) ==
    \E k \in 0..(Len(s) - Len(sub)) : \A j \in 1..Len(sub) : SameLetter(sub[j], s[k + j])

\* C9: an exec check passes if and only if the invocation exits with 0 and
\* every string of expect.stdout_contains occurs in stdout, case ignored; on
\* exit 0 with a string missing it fails with "Output missing: <s>", <s> the
\* first missing string as written; with no expected strings exit 0 suffices.
C9_ExecPasses ==
    (hpc = "returned" /\ TypeOf(hcheck) = <<"exec">>) =>
        LET expect == IF "expect" \in DOMAIN hcheck THEN hcheck.expect ELSE <<>>
            wanted == IF "stdout_contains" \in DOMAIN expect THEN expect.stdout_contains ELSE <<>>
            exit0 == hraw.kind = "exit" /\ hraw.code = 0
            missing == {i \in 1..Len(wanted) : ~OccursIgnoringCase(wanted[i], hraw.stdout)}
        IN  /\ hres[1] <=> (exit0 /\ missing = {})
            /\ (exit0 /\ missing # {}) =>
                  hres = <<FALSE, <<"Output missing: ">> \o wanted[CHOOSE m \in missing : \A o \in missing : m <= o]>>
            /\ (exit0 /\ wanted = <<>>) => hres[1]

\* "Ok" found in "lookup OK" only when case is ignored, then "z" missing
C9_Witness ==
    /\ hpc = "returned"
    /\ TypeOf(hcheck) = <<"exec">>
    /\ hraw.kind = "exit" /\ hraw.code = 0 /\ hraw.stdout = OutTools
    /\ "expect" \in DOMAIN hcheck /\ "stdout_contains" \in DOMAIN hcheck.expect
    /\ hcheck.expect.stdout_contains = << <<"O", "k">>, <<"z">> >>
    /\ hres = <<FALSE, <<"Output missing: ", "z">> >>

\* C10: the external command is invoked exactly once for each check of a
\* recognised type and never for a check of unknown type, in rubric order,
\* each invocation ending before the next begins, and none is repeated.
C10_OneInvocationPerCheck ==
    pc \in {"loop", "running", "done"} =>
        LET begun == IF pc = "running" THEN idx + 1 ELSE idx
            startsOf(i) == {k \in 1..Len(calls) : calls[k][1] = "start" /\ calls[k][2] = i}
        IN  /\ \A i \in 1..Len(checks) :
                  Cardinality(startsOf(i)) = (IF i <= begun /\ TypeOf(checks[i]) \in Recognised THEN 1 ELSE 0)
            /\ \A k \in 1..Len(calls) :
                  IF k % 2 = 1
                  THEN calls[k][1] = "start" /\ (k < Len(calls) => calls[k + 1] = <<"end", calls[k][2]>>)
                  ELSE calls[k][1] = "end"
            /\ (Len(calls) % 2 = 1) <=> (pc = "running")
            /\ \A k, l \in 1..Len(calls) :
                  (k < l /\ calls[k][1] = "start" /\ calls[l][1] = "start") => calls[k][2] < calls[l][2]
            /\ pc = "done" => idx = Len(checks)

\* a finished run of two invocations, the first of which timed out
C10_Witness ==
    /\ pc = "done"
    /\ Len(calls) = 4
    /\ results.checks[1].output = <<"Timeout exceeded">>
    /\ calls[3][2] = 2

====
